---- MODULE Spec2Model ----
(***************************************************************************)
(* Model of the DiabetesAI advisor (src/main.go): main's start-up, the     *)
(* five advisory flows and the text helpers they call (splitIntoSections,  *)
(* parseMealSections, extractSection, containsKeywords).                   *)
(*                                                                         *)
(* A Go string is a sequence of bytes.  A byte is a one-character string   *)
(* for an ASCII byte ("a", ":", "\n") and its two hex digits for a byte of *)
(* a multi-byte UTF-8 character ("C9", "90").  The input alphabet holds    *)
(* two non-ASCII characters, chosen because upper-casing changes their     *)
(* byte length:                                                            *)
(*    U+0250 (turned a) = C9 90   upper-cases to U+2C6F = E2 B1 AF         *)
(*    U+0131 (dotless i) = C4 B1  upper-cases to "I"                       *)
(***************************************************************************)
EXTENDS Integers, Sequences, FiniteSets, TLC

VARIABLES pc, flow, reading, reply, calls, outcome, call, ret, main

vars == <<pc, flow, reading, reply, calls, outcome, call, ret, main>>

(***************************************************************************)
(* Bytes and the Go standard-library string functions the helpers use.     *)
(***************************************************************************)
LowerLetters == <<"a","b","c","d","e","f","g","h","i","j","k","l","m",
                  "n","o","p","q","r","s","t","u","v","w","x","y","z">>
UpperLetters == <<"A","B","C","D","E","F","G","H","I","J","K","L","M",
                  "N","O","P","Q","R","S","T","U","V","W","X","Y","Z">>

\* Bytes >= 0x80 (utf8.RuneSelf) that occur in the model.
HighBytes == {"C9", "90", "C4", "B1", "E2", "AF", "EF", "BF", "BD"}

IsASCII(b) == b \notin HighBytes

\* U+FFFD, what a byte that is no valid UTF-8 is mapped to.
RuneError == <<"EF", "BF", "BD">>

TurnedA      == <<"C9", "90">>
TurnedAUpper == <<"E2", "B1", "AF">>
DotlessI     == <<"C4", "B1">>

UpperByte(b) ==
    IF \E i \in 1..26 : LowerLetters[i] = b
    THEN UpperLetters[CHOOSE i \in 1..26 : LowerLetters[i] = b]
    ELSE b

LowerByte(b) ==
    IF \E i \in 1..26 : UpperLetters[i] = b
    THEN LowerLetters[CHOOSE i \in 1..26 : UpperLetters[i] = b]
    ELSE b

\* s[lo:hi] of Go, for 0 <= lo <= hi <= len(s).
Slice(s, lo, hi) == SubSeq(s, lo + 1, hi)

\* The bytes of s from its i-th byte (1-based) on begin with p.
StartsAt(s, i, p) == i >= 1 /\ i + Len(p) - 1 <= Len(s) /\ SubSeq(s, i, i + Len(p) - 1) = p

\* The i-th byte of s is the second byte of a two-byte character.
IsSecondByte(s, i) == StartsAt(s, i - 1, TurnedA) \/ StartsAt(s, i - 1, DotlessI)

\* What strings.ToUpper writes for the i-th byte of s: an ASCII letter gives
\* its capital, U+0250 gives U+2C6F (one byte longer), U+0131 gives "I" (one
\* byte shorter), the second byte of a character nothing more, and a byte
\* that starts no valid character (a lone lead or continuation byte) U+FFFD.
UpperAt(s, i) ==
    IF IsASCII(s[i]) THEN <<UpperByte(s[i])>>
    ELSE IF IsSecondByte(s, i) THEN <<>>
    ELSE IF StartsAt(s, i, TurnedA) THEN TurnedAUpper
    ELSE IF StartsAt(s, i, DotlessI) THEN <<"I">>
    ELSE RuneError

\* The same for strings.ToLower: the two non-ASCII characters have no
\* lower-case mapping.
LowerAt(s, i) ==
    IF IsASCII(s[i]) THEN <<LowerByte(s[i])>>
    ELSE IF IsSecondByte(s, i) THEN <<>>
    ELSE IF StartsAt(s, i, TurnedA) THEN TurnedA
    ELSE IF StartsAt(s, i, DotlessI) THEN DotlessI
    ELSE RuneError

\* The upper-cased bytes lo..hi of s, by halves to keep the recursion shallow.
RECURSIVE UpperRange(_, _, _)
UpperRange(s, lo, hi) ==
    IF lo > hi THEN <<>>
    ELSE IF lo = hi THEN UpperAt(s, lo)
    ELSE UpperRange(s, lo, (lo + hi) \div 2) \o UpperRange(s, (lo + hi) \div 2 + 1, hi)

RECURSIVE LowerRange(_, _, _)
LowerRange(s, lo, hi) ==
    IF lo > hi THEN <<>>
    ELSE IF lo = hi THEN LowerAt(s, lo)
    ELSE LowerRange(s, lo, (lo + hi) \div 2) \o LowerRange(s, (lo + hi) \div 2 + 1, hi)

\* strings.ToUpper
ToUpper(s) == UpperRange(s, 1, Len(s))

\* strings.ToLower
ToLower(s) == LowerRange(s, 1, Len(s))

\* The byte offsets at which sub occurs in s.
Occurrences(s, sub) ==
    {i \in 0..(Len(s) - Len(sub)) : SubSeq(s, i + 1, i + Len(sub)) = sub}

\* strings.Index: the offset of the first occurrence, -1 if there is none.
Index(s, sub) ==
    IF Occurrences(s, sub) = {} THEN -1
    ELSE CHOOSE i \in Occurrences(s, sub) : \A j \in Occurrences(s, sub) : i <= j

\* strings.Contains
Contains(s, sub) == Index(s, sub) >= 0

\* strings.Split for a non-empty separator: cut at each occurrence, left to right.
RECURSIVE Split(_, _)
Split(s, sep) ==
    IF Index(s, sep) = -1 THEN <<s>>
    ELSE <<Slice(s, 0, Index(s, sep))>>
         \o Split(Slice(s, Index(s, sep) + Len(sep), Len(s)), sep)

\* The white space of unicode.IsSpace among the model's bytes.
Space == {" ", "\n", "\t", "\r"}

RECURSIVE TrimLeft(_, _)
TrimLeft(s, cutset) ==
    IF s # <<>> /\ Head(s) \in cutset THEN TrimLeft(Tail(s), cutset) ELSE s

RECURSIVE TrimRight(_, _)
TrimRight(s, cutset) ==
    IF s # <<>> /\ s[Len(s)] \in cutset
    THEN TrimRight(SubSeq(s, 1, Len(s) - 1), cutset) ELSE s

\* strings.Trim(s, cutset): leading and trailing bytes of cutset removed.
Trim(s, cutset) == TrimRight(TrimLeft(s, cutset), cutset)

\* strings.TrimSpace
TrimSpace(s) == Trim(s, Space)

(***************************************************************************)
(* A helper's outcome: a value, or a run-time panic.                       *)
(***************************************************************************)
Value(v) == [panic |-> FALSE, val |-> v]
Panic    == [panic |-> TRUE, val |-> <<>>]

\* make([]string, n): n empty strings; a negative length panics.
MakeStrings(n) == IF n < 0 THEN Panic ELSE Value([i \in 1..n |-> <<>>])

\* The loop without the TrimSpace: each chunk copied as it is.
FillSectionsUntrimmed(sections, parts) ==
    [i \in 1..Len(sections) |->
        IF i <= Len(parts) THEN parts[i] ELSE sections[i]]

\* for i := 0; i < numSections && i < len(parts); i++ { sections[i] = TrimSpace(parts[i]) }
FillSections(sections, parts) ==
    [i \in 1..Len(sections) |->
        IF i <= Len(parts) THEN TrimSpace(parts[i]) ELSE sections[i]]

splitIntoSections(text, numSections) ==
    LET sections == MakeStrings(numSections) IN
    IF sections.panic THEN Panic
    ELSE IF text = <<>> \/ numSections <= 0 THEN sections
    ELSE Value(FillSections(sections.val, Split(text, <<"\n", "\n">>)))

(***************************************************************************)
(* extractSection and parseMealSections.                                   *)
(***************************************************************************)
Sentinel == <<"N","o"," ","i","n","f","o","r","m","a","t","i","o","n"," ",
              "a","v","a","i","l","a","b","l","e",".">>

BREAKFAST == <<"B","R","E","A","K","F","A","S","T">>
LUNCH     == <<"L","U","N","C","H">>
DINNER    == <<"D","I","N","N","E","R">>
SNACKS    == <<"S","N","A","C","K","S">>

\* []string{"BREAKFAST", "LUNCH", "DINNER", "SNACKS"}, in the order the loop visits them.
SectionHeaders == <<BREAKFAST, LUNCH, DINNER, SNACKS>>

\* text[lo:]: a panic when lo is past the end of text.
SliceFrom(text, lo) ==
    IF lo > Len(text) THEN Panic ELSE Value(Slice(text, lo, Len(text)))

\* content[:hi]: a panic when hi is past the end of content.
SliceTo(content, hi) ==
    IF hi > Len(content) THEN Panic ELSE Value(Slice(content, 0, hi))

\* The loop "Stop at the next section header", from the k-th header on: the
\* first header of the list (other than the keyword) that occurs in the
\* upper-cased content cuts the content at the offset found there, and the
\* loop breaks.
RECURSIVE StopAtNextHeader(_, _, _)
StopAtNextHeader(content, keywordUpper, k) ==
    IF k > Len(SectionHeaders) THEN Value(content)
    ELSE IF SectionHeaders[k] = keywordUpper
         THEN StopAtNextHeader(content, keywordUpper, k + 1)
    ELSE IF Index(ToUpper(content), SectionHeaders[k]) # -1
         THEN SliceTo(content, Index(ToUpper(content), SectionHeaders[k]))
    ELSE StopAtNextHeader(content, keywordUpper, k + 1)

\* clean := strings.TrimSpace(strings.Trim(content, ":-")); "" gives the sentinel.
Clean(content) ==
    IF TrimSpace(Trim(content, {":", "-"})) = <<>> THEN Sentinel
    ELSE TrimSpace(Trim(content, {":", "-"}))

extractSection(text, keyword) ==
    IF text = <<>> THEN Value(Sentinel)
    ELSE LET textUpper    == ToUpper(text)
             keywordUpper == ToUpper(keyword)
             start        == Index(textUpper, keywordUpper)
         IN  IF start = -1 THEN Value(Sentinel)
             ELSE LET content == SliceFrom(text, start + Len(keywordUpper)) IN
                  IF content.panic THEN Panic
                  ELSE LET cut == StopAtNextHeader(content.val, keywordUpper, 1) IN
                       IF cut.panic THEN Panic ELSE Value(Clean(cut.val))

parseMealSections(text) ==
    LET b == extractSection(text, BREAKFAST)
        l == extractSection(text, LUNCH)
        d == extractSection(text, DINNER)
        s == extractSection(text, SNACKS)
    IN  IF b.panic \/ l.panic \/ d.panic \/ s.panic THEN Panic
        ELSE Value([breakfast |-> b.val, lunch |-> l.val,
                    dinner |-> d.val, snacks |-> s.val])

(***************************************************************************)
(* containsKeywords and the two classifiers.                               *)
(***************************************************************************)
containsKeywords(text, keywords) ==
    IF text = <<>> \/ Len(keywords) = 0 THEN FALSE
    ELSE \E i \in 1..Len(keywords) :
            /\ keywords[i] # <<>>
            /\ Contains(ToLower(text), ToLower(keywords[i]))

EmergencyKeywords ==
    << <<"e","m","e","r","g","e","n","c","y">>, <<"9","1","1">>,
       <<"i","m","m","e","d","i","a","t","e">>,
       <<"u","r","g","e","n","t"," ","c","a","r","e">> >>

UrgentKeywords ==
    << <<"u","r","g","e","n","t">>,
       <<"c","o","n","t","a","c","t"," ","d","o","c","t","o","r">>,
       <<"t","o","d","a","y">> >>

\* The two keyword sets tested in the other order.
UrgencyUrgentFirst(text) ==
    IF containsKeywords(text, UrgentKeywords) THEN "urgent"
    ELSE IF containsKeywords(text, EmergencyKeywords) THEN "emergency"
    ELSE "routine"

\* "Determine urgency from response"
Urgency(text) ==
    IF containsKeywords(text, EmergencyKeywords) THEN "emergency"
    ELSE IF containsKeywords(text, UrgentKeywords) THEN "urgent"
    ELSE "routine"

LowBelow      == 70
CriticalAbove == 250
HighAbove     == 180

\* The upper thresholds compared with >= instead of >.
StatusInclusive(r) ==
    IF r < LowBelow THEN "low"
    ELSE IF r >= CriticalAbove THEN "critical"
    ELSE IF r >= HighAbove THEN "high"
    ELSE "normal"

\* "Determine status based on reading"
Status(r) ==
    IF r < LowBelow THEN "low"
    ELSE IF r > CriticalAbove THEN "critical"
    ELSE IF r > HighAbove THEN "high"
    ELSE "normal"

(***************************************************************************)
(* The five flows.  A handler renders its prompt and calls                 *)
(* genkit.Generate once (Invoke...), the backend answers with a text or an *)
(* error (BackendReply), and the handler builds what it returns from the   *)
(* answer (Complete...).  The prompt only carries the request's fields to  *)
(* the backend, which may answer anything, so it is not part of the state. *)
(* What a handler returns is the Go pair (response, error): resp and err   *)
(* are <<>> for nil and <<x>> for a value; panicked says it returned       *)
(* nothing because it panicked.                                            *)
(***************************************************************************)
Returned(resp, err) == [panicked |-> FALSE, resp |-> resp, err |-> err]
Panicked            == [panicked |-> TRUE, resp |-> <<>>, err |-> <<>>]

\* return &Output{...}, nil
Response(r) == Returned(<<r>>, <<>>)

\* return nil, fmt.Errorf("<msg>: %w", err)
Failure(msg, e) == Returned(<<>>, <<[msg |-> msg, wraps |-> e]>>)

\* Flow 1: Blood Sugar Interpreter
bloodSugarInterpreter(input, result) ==
    IF ~result.ok THEN Failure("failed to interpret blood sugar", result.err)
    ELSE LET status == Status(input)
             parts  == splitIntoSections(result.text, 3)
         IN  IF parts.panic \/ Len(parts.val) < 2 THEN Panicked
             ELSE Response([status         |-> status,
                            interpretation |-> parts.val[1],
                            recommendation |-> parts.val[2]])

\* Flow 2: Meal Planner
mealPlanner(result) ==
    IF ~result.ok THEN Failure("failed to generate meal plan", result.err)
    ELSE LET sections == parseMealSections(result.text) IN
         IF sections.panic THEN Panicked
         ELSE Response([breakfast |-> sections.val.breakfast,
                        lunch     |-> sections.val.lunch,
                        dinner    |-> sections.val.dinner,
                        snacks    |-> sections.val.snacks])

\* Flow 3: Symptom Checker
symptomChecker(result) ==
    IF ~result.ok THEN Failure("failed to check symptoms", result.err)
    ELSE LET urgency == Urgency(result.text)
             parts   == splitIntoSections(result.text, 3)
         IN  IF parts.panic \/ Len(parts.val) < 2 THEN Panicked
             ELSE Response([urgency    |-> urgency,
                            assessment |-> parts.val[1],
                            next_steps |-> parts.val[2]])

\* Flow 4: Exercise Advisor
exerciseAdvisor(result) ==
    IF ~result.ok THEN Failure("failed to generate exercise plan", result.err)
    ELSE LET parts == splitIntoSections(result.text, 4) IN
         IF parts.panic \/ Len(parts.val) < 4 THEN Panicked
         ELSE Response([safety_check   |-> parts.val[1],
                        recommendation |-> parts.val[2],
                        duration       |-> parts.val[3],
                        precautions    |-> parts.val[4]])

\* The handler with the error branch's return missing: the response is built
\* from the empty text and returned.
medicationInfoNoReturn(result) ==
    Response([information |-> result.text,
              reminder    |-> "Set reminders on your phone for medication times. Never skip doses without consulting your doctor.",
              disclaimer  |-> "IMPORTANT: This is educational information only. Always consult your healthcare provider before starting, stopping, or changing any medication. This AI advisor cannot replace professional medical advice."])

\* Flow 5: Medication Info
medicationInfo(result) ==
    IF ~result.ok THEN Failure("failed to get medication info", result.err)
    ELSE Response([information |-> result.text,
                   reminder    |-> "Set reminders on your phone for medication times. Never skip doses without consulting your doctor.",
                   disclaimer  |-> "IMPORTANT: This is educational information only. Always consult your healthcare provider before starting, stopping, or changing any medication. This AI advisor cannot replace professional medical advice."])

(***************************************************************************)
(* Inputs.                                                                 *)
(***************************************************************************)
\* The concatenations of at most n fragments of F.
RECURSIVE Texts(_, _)
Texts(F, n) ==
    IF n = 0 THEN {<<>>}
    ELSE Texts(F, n - 1) \cup {t \o f : t \in Texts(F, n - 1), f \in F}

MaxFlowFrags == 2

FourParagraphs == <<"p","\n","\n","q"," ","\n","\n","r","\n","\n","s","\n","\n","t">>

\* The length of the breakfast preview main prints: mealResult.Breakfast[:100].
PreviewLen == 100

\* A meal plan whose breakfast section is longer than the preview.
LongBreakfast == BREAKFAST \o <<":", " ">> \o [i \in 1..(PreviewLen + 1) |-> "x"]

FlowFrags ==
    { <<"a">>, <<"\n","\n">>, <<":">>, LUNCH, TurnedA,
      <<"u","r","g","e","n","t">>, <<"9","1","1">>, FourParagraphs,
      LongBreakfast }

FlowTexts == Texts(FlowFrags, MaxFlowFrags)

\* Readings in mg/dL, on both sides of each threshold.
Readings == {-5, 0, 50, 69, 70, 71, 145, 179, 180, 181, 200, 249, 250, 251, 300}

BackendErrors == {"quota exceeded", "connection refused"}

Replies ==
    {[ok |-> TRUE, text |-> t, err |-> ""] : t \in FlowTexts}
    \cup {[ok |-> FALSE, text |-> <<>>, err |-> e] : e \in BackendErrors}

NoReply   == [ok |-> FALSE, text |-> <<>>, err |-> ""]
NoOutcome == Returned(<<>>, <<>>)
NoCall    == [fn |-> "none"]
NoRet     == [done |-> FALSE, out |-> Value(<<>>)]

\* main's position: the server is started and serves requests.
Serving == [stage |-> "serving", apiKey |-> "key"]

FlowNames == {"bloodSugarInterpreter", "mealPlanner", "symptomChecker",
              "exerciseAdvisor", "medicationInfo"}

Init ==
    /\ pc = "idle"
    /\ flow = "none"
    /\ reading = 0
    /\ reply = NoReply
    /\ calls = 0
    /\ outcome = NoOutcome
    /\ call = NoCall
    /\ ret = NoRet
    /\ main = Serving

\* A request reaches the server: the handler of flow f starts, with reading r, and issues its generate call.
Invoke(f, r) ==
    /\ main.stage = "serving"
    /\ pc = "idle"
    /\ pc' = "awaiting"
    /\ flow' = f
    /\ reading' = r
    /\ calls' = calls + 1
    /\ UNCHANGED <<reply, outcome, call, ret, main>>

InvokeBloodSugar == \E r \in Readings : Invoke("bloodSugarInterpreter", r)
InvokeMealPlan   == Invoke("mealPlanner", 0)
InvokeSymptoms   == Invoke("symptomChecker", 0)
InvokeExercise   == Invoke("exerciseAdvisor", 0)
InvokeMedication == Invoke("medicationInfo", 0)

\* The backend answers the generate call: a text, or an error.
BackendReply ==
    /\ pc = "awaiting"
    /\ \E g \in Replies : reply' = g
    /\ pc' = "replied"
    /\ UNCHANGED <<flow, reading, calls, outcome, call, ret, main>>

\* The handler of flow f returns (or panics).
Complete(f, o) ==
    /\ pc = "replied"
    /\ flow = f
    /\ outcome' = o
    /\ pc' = "done"
    /\ UNCHANGED <<flow, reading, reply, calls, call, ret, main>>

CompleteBloodSugar ==
    Complete("bloodSugarInterpreter", bloodSugarInterpreter(reading, reply))
CompleteMealPlan   == Complete("mealPlanner", mealPlanner(reply))
CompleteSymptoms   == Complete("symptomChecker", symptomChecker(reply))
CompleteExercise   == Complete("exerciseAdvisor", exerciseAdvisor(reply))
CompleteMedication == Complete("medicationInfo", medicationInfo(reply))

\* The request is over; nothing of it is kept for the next one.
NextRequest ==
    /\ main.stage = "serving"
    /\ pc = "done"
    /\ pc' = "idle"
    /\ flow' = "none"
    /\ reading' = 0
    /\ reply' = NoReply
    /\ calls' = 0
    /\ outcome' = NoOutcome
    /\ UNCHANGED <<call, ret, main>>

Next ==
    \/ InvokeBloodSugar
    \/ InvokeMealPlan
    \/ InvokeSymptoms
    \/ InvokeExercise
    \/ InvokeMedication
    \/ BackendReply
    \/ CompleteBloodSugar
    \/ CompleteMealPlan
    \/ CompleteSymptoms
    \/ CompleteExercise
    \/ CompleteMedication
    \/ NextRequest

Spec == Init /\ [][Next]_vars

(***************************************************************************)
(* The helpers called on their own: the argument is drawn in the initial   *)
(* state (call) and the one action applies the helper to it (ret).         *)
(***************************************************************************)
FlowsIdle ==
    /\ pc = "idle"
    /\ flow = "none"
    /\ reading = 0
    /\ reply = NoReply
    /\ calls = 0
    /\ outcome = NoOutcome
    /\ main = Serving

Apply(fn, out) ==
    /\ call.fn = fn
    /\ ~ret.done
    /\ ret' = [done |-> TRUE, out |-> out]
    /\ UNCHANGED <<pc, flow, reading, reply, calls, outcome, call, main>>

\* splitIntoSections(text, n)
MaxSplitLen == 4
MaxSections == 3
MaxNegative == 2

SplitTexts == Texts({<<"a">>, <<"b">>, <<" ">>, <<"\n">>}, MaxSplitLen)

SplitInit ==
    /\ FlowsIdle
    /\ call \in {[fn |-> "splitIntoSections", text |-> t, n |-> n] :
                    t \in SplitTexts, n \in (-MaxNegative)..MaxSections}
    /\ ret = NoRet

CallSplit == Apply("splitIntoSections", splitIntoSections(call.text, call.n))

SpecSplit == SplitInit /\ [][CallSplit]_vars

\* extractSection(text, keyword), for the keywords parseMealSections passes.
MaxExtractFrags == 4

Oats == <<"o","a","t","s">>

ExtractFrags ==
    { BREAKFAST, <<"L","u","n","c","h">>, DINNER, <<":">>, <<" ">>, <<"-">>,
      Oats, TurnedA, DotlessI }

ExtractTexts == Texts(ExtractFrags, MaxExtractFrags)

Keywords == {SectionHeaders[k] : k \in 1..Len(SectionHeaders)}

ExtractInit ==
    /\ FlowsIdle
    /\ call \in {[fn |-> "extractSection", text |-> t, keyword |-> k] :
                    t \in ExtractTexts, k \in Keywords}
    /\ ret = NoRet

CallExtract == Apply("extractSection", extractSection(call.text, call.keyword))

SpecExtract == ExtractInit /\ [][CallExtract]_vars

\* parseMealSections(text), for the texts the meal prompt asks for: the
\* headers in the order BREAKFAST, LUNCH, DINNER, SNACKS, each present or
\* not, each followed by a colon and a body.  plan[k] is <<>> when the
\* k-th header is absent and <<body>> when it is present.
Salad == <<"s","a","l","a","d">>
Soup  == <<"s","o","u","p">>

MealBodies ==
    { <<" ">> \o Oats \o <<"\n","\n">>,
      <<" ">> \o Salad \o <<"\n","\n">>,
      <<" ">> \o Soup,
      <<" ">> \o DotlessI \o DotlessI \o <<"\n","\n">>,
      <<" ">> \o TurnedA \o Oats \o <<" ">> }

MealPlans == [1..Len(SectionHeaders) -> {<<>>} \cup {<<b>> : b \in MealBodies}]

RECURSIVE RenderFrom(_, _)
RenderFrom(plan, k) ==
    IF k > Len(SectionHeaders) THEN <<>>
    ELSE (IF plan[k] = <<>> THEN <<>> ELSE SectionHeaders[k] \o <<":">> \o plan[k][1])
         \o RenderFrom(plan, k + 1)

Render(plan) == RenderFrom(plan, 1)

MealInit ==
    /\ FlowsIdle
    /\ call \in {[fn |-> "parseMealSections", text |-> Render(p), plan |-> p] :
                    p \in MealPlans}
    /\ ret = NoRet

CallParseMeal == Apply("parseMealSections", parseMealSections(call.text))

SpecMeal == MealInit /\ [][CallParseMeal]_vars

\* The urgency classification of the symptom checker.
MaxUrgencyFrags == 2

UrgencyFrags ==
    { <<"E","m","e","r","g","e","n","c","y">>, <<"9","1","1">>,
      <<"i","m","m","e","d","i","a","t","e">>, <<"U","R","G","E","N","T">>,
      <<" ","c","a","r","e">>, <<"c","o","n","t","a","c","t"," ">>,
      <<"d","o","c","t","o","r">>, <<"t","o","d","a","y">>,
      <<"f","i","n","e">>, TurnedA }

UrgencyTexts == Texts(UrgencyFrags, MaxUrgencyFrags)

UrgencyInit ==
    /\ FlowsIdle
    /\ call \in {[fn |-> "urgency", text |-> t] : t \in UrgencyTexts}
    /\ ret = NoRet

ClassifyUrgency == Apply("urgency", Urgency(call.text))

SpecUrgency == UrgencyInit /\ [][ClassifyUrgency]_vars

(***************************************************************************)
(* main: start-up.  main reads the credential, generates the welcome       *)
(* message, runs three of the flows once each and starts the server.  It   *)
(* blocks at each generate call, which BackendReply answers; the flow runs *)
(* are the handlers of the flows (Complete...).  main.stage is main's      *)
(* position; "fatal" is the exit of log.Fatal and "crashed" a panic that   *)
(* nothing recovers.  Line 99 spells the read os.Getenve, which package os *)
(* does not have; it is modelled as os.Getenv.                             *)
(***************************************************************************)
ApiKeys == {"", "key"}

MainInit ==
    /\ pc = "idle"
    /\ flow = "none"
    /\ reading = 0
    /\ reply = NoReply
    /\ calls = 0
    /\ outcome = NoOutcome
    /\ call = NoCall
    /\ ret = NoRet
    /\ \E k \in ApiKeys : main = [stage |-> "start", apiKey |-> k]

\* The check left out: main goes on whatever the key.
KeyMissingIgnored(apiKey) == FALSE

\* if apiKey == "" { log.Fatal(...) }
KeyMissing(apiKey) == apiKey = ""

\* main moves to stage st and blocks in a generate call, made by main itself
\* (f = "none") or by the handler of flow f run with reading r.
Generate(st, f, r) ==
    /\ main' = [main EXCEPT !.stage = st]
    /\ pc' = "awaiting"
    /\ flow' = f
    /\ reading' = r
    /\ reply' = NoReply
    /\ calls' = 1
    /\ outcome' = NoOutcome
    /\ UNCHANGED <<call, ret>>

\* main ends at stage st.
Stop(st) ==
    /\ main' = [main EXCEPT !.stage = st]
    /\ UNCHANGED <<pc, flow, reading, reply, calls, outcome, call, ret>>

\* From the start of main to the welcome message's generate call.
Startup ==
    /\ main.stage = "start"
    /\ IF KeyMissing(main.apiKey) THEN Stop("fatal")
       ELSE Generate("welcome", "none", 0)

\* The welcome message is logged or printed, the flows are defined and the
\* blood-sugar flow is run with the reading 145.
WelcomeReturns ==
    /\ main.stage = "welcome"
    /\ pc = "replied"
    /\ Generate("testBloodSugar", "bloodSugarInterpreter", 145)

\* "Testing Blood Sugar Interpreter" ends; the meal planner is run.
BloodSugarTested ==
    /\ main.stage = "testBloodSugar"
    /\ pc = "done"
    /\ IF outcome.panicked THEN Stop("crashed")
       ELSE Generate("testMealPlan", "mealPlanner", 0)

\* mealResult.Breakfast[:100] panics when the breakfast is shorter.
PreviewPanics(o) == o.err = <<>> /\ Len(o.resp[1].breakfast) < PreviewLen

\* "Testing Meal Planner" ends; the exercise advisor is run.
MealPlanTested ==
    /\ main.stage = "testMealPlan"
    /\ pc = "done"
    /\ IF outcome.panicked \/ PreviewPanics(outcome) THEN Stop("crashed")
       ELSE Generate("testExercise", "exerciseAdvisor", 0)

\* "Testing Exercise Advisor" ends; the five endpoints are registered and the
\* server is started.
ExerciseTested ==
    /\ main.stage = "testExercise"
    /\ pc = "done"
    /\ IF outcome.panicked THEN Stop("crashed")
       ELSE /\ main' = [main EXCEPT !.stage = "serving"]
            /\ pc' = "idle"
            /\ flow' = "none"
            /\ reading' = 0
            /\ reply' = NoReply
            /\ calls' = 0
            /\ outcome' = NoOutcome
            /\ UNCHANGED <<call, ret>>

MainNext ==
    \/ Startup
    \/ WelcomeReturns
    \/ BloodSugarTested
    \/ MealPlanTested
    \/ ExerciseTested
    \/ Next

SpecMain == MainInit /\ [][MainNext]_vars

(***************************************************************************)
(* Properties.                                                             *)
(***************************************************************************)
\* sub occurs in s when letter case is ignored, byte by byte.
OccursIgnoringCase(s, sub) ==
    \E i \in 0..(Len(s) - Len(sub)) :
        \A j \in 1..Len(sub) : LowerByte(s[i + j]) = LowerByte(sub[j])

Extracted == call.fn = "extractSection" /\ ret.done

\* C1: whatever the text and the order of its labels, a result of
\* extractSection(text, L) other than the sentinel contains none of the known
\* labels other than L (the text after L is cut at the earliest of them).
C1_NoOtherLabelInResult ==
    (Extracted /\ ~ret.out.panic /\ ret.out.val # Sentinel) =>
        \A k \in 1..Len(SectionHeaders) :
            SectionHeaders[k] # call.keyword =>
                ~OccursIgnoringCase(ret.out.val, SectionHeaders[k])

SplitDone == call.fn = "splitIntoSections" /\ ret.done

\* C2: splitIntoSections(text, N) with N = 0 or N negative returns zero slots
\* and does not fail, for every text.
C2_NoSlotsForNonPositiveCount ==
    (SplitDone /\ call.n <= 0) => (~ret.out.panic /\ ret.out.val = <<>>)

\* The i-th (0-based) chunk of text split on two consecutive newlines,
\* trimmed, and the empty string when there is no such chunk.
ExpectedSlot(text, i) ==
    IF i < Len(Split(text, <<"\n", "\n">>))
    THEN TrimSpace(Split(text, <<"\n", "\n">>)[i + 1])
    ELSE <<>>

\* C3: for N >= 1, splitIntoSections(text, N) returns exactly N slots; slot i
\* is the i-th chunk of the text split on two consecutive newlines, trimmed,
\* when there is one and the empty string otherwise; later chunks are dropped.
C3_ExactlyNSlots ==
    (SplitDone /\ call.n >= 1) =>
        /\ ~ret.out.panic
        /\ Len(ret.out.val) = call.n
        /\ \A i \in 0..(call.n - 1) : ret.out.val[i + 1] = ExpectedSlot(call.text, i)

\* C3's case: more chunks than slots, the first of them with white space to trim.
C3_Witness ==
    /\ SplitDone
    /\ call.n >= 1
    /\ Len(Split(call.text, <<"\n", "\n">>)) > call.n
    /\ ret.out.val[1] # <<>>
    /\ ret.out.val[1] # Split(call.text, <<"\n", "\n">>)[1]

\* C4: a result of extractSection other than the sentinel does not begin with
\* a colon or a hyphen and has no white space at either end.
C4_ResultIsStripped ==
    (Extracted /\ ~ret.out.panic /\ ret.out.val # Sentinel /\ ret.out.val # <<>>) =>
        /\ Head(ret.out.val) \notin {":", "-"}
        /\ Head(ret.out.val) \notin Space
        /\ ret.out.val[Len(ret.out.val)] \notin Space

FlowDone == pc = "done"

\* C5: the blood-sugar status depends on the reading alone, whatever text the
\* backend returned: below 70 low, above 250 critical, above 180 and at most
\* 250 high, from 70 to 180 (both included) normal; always one of the four.
C5_StatusFromReadingAlone ==
    (FlowDone /\ flow = "bloodSugarInterpreter" /\ reply.ok) =>
        /\ outcome.resp # <<>>
        /\ LET status == outcome.resp[1].status IN
            /\ status \in {"low", "normal", "high", "critical"}
            /\ reading < 70 => status = "low"
            /\ reading > 250 => status = "critical"
            /\ (180 < reading /\ reading <= 250) => status = "high"
            /\ (70 <= reading /\ reading <= 180) => status = "normal"
            /\ reading = 50 => status = "low"
            /\ reading = 300 => status = "critical"
            /\ reading = 200 => status = "high"
            /\ reading = 145 => status = "normal"

\* C5's case: a reading on the boundary 180, answered with a text that names
\* another urgency.
C5_Witness ==
    /\ FlowDone
    /\ flow = "bloodSugarInterpreter"
    /\ reply.ok
    /\ reading = 180
    /\ reply.text = <<"u","r","g","e","n","t">>
    /\ outcome.resp[1].status = "normal"

\* Some keyword of the sequence occurs in the text, letter case ignored.
AnyOccurs(text, keywords) ==
    \E i \in 1..Len(keywords) : OccursIgnoringCase(text, keywords[i])

Classified == call.fn = "urgency" /\ ret.done

\* C6: the urgency is "emergency" if the text contains, ignoring case, one of
\* emergency, 911, immediate, urgent care; otherwise "urgent" if it contains
\* one of urgent, contact doctor, today; otherwise "routine"; with keywords of
\* both sets present it is "emergency".
C6_EmergencyBeforeUrgent ==
    Classified =>
        ret.out =
            IF AnyOccurs(call.text,
                         << <<"e","m","e","r","g","e","n","c","y">>, <<"9","1","1">>,
                            <<"i","m","m","e","d","i","a","t","e">>,
                            <<"u","r","g","e","n","t"," ","c","a","r","e">> >>)
            THEN "emergency"
            ELSE IF AnyOccurs(call.text,
                              << <<"u","r","g","e","n","t">>,
                                 <<"c","o","n","t","a","c","t"," ","d","o","c","t","o","r">>,
                                 <<"t","o","d","a","y">> >>)
            THEN "urgent"
            ELSE "routine"

\* C6's case: a text with "911" (emergency set) and "today" (urgent set).
C6_Witness ==
    /\ Classified
    /\ OccursIgnoringCase(call.text, <<"9","1","1">>)
    /\ OccursIgnoringCase(call.text, <<"t","o","d","a","y">>)
    /\ ret.out = "emergency"

\* The message each flow wraps a backend error with.
FailureMessage(f) ==
    CASE f = "bloodSugarInterpreter" -> "failed to interpret blood sugar"
      [] f = "mealPlanner"           -> "failed to generate meal plan"
      [] f = "symptomChecker"        -> "failed to check symptoms"
      [] f = "exerciseAdvisor"       -> "failed to generate exercise plan"
      [] f = "medicationInfo"        -> "failed to get medication info"

\* C7: a request makes exactly one generate call; when the call fails the flow
\* makes no other, returns no response, and returns an error wrapping the
\* backend's error under a message naming the flow's category.
C7_OneCallErrorWrapped ==
    /\ calls = (IF pc = "idle" THEN 0 ELSE 1)
    /\ (FlowDone /\ ~reply.ok) =>
        /\ ~outcome.panicked
        /\ outcome.resp = <<>>
        /\ outcome.err = <<[msg |-> FailureMessage(flow), wraps |-> reply.err]>>

\* C7's case: the medication flow ended on a failed generate call.
C7_Witness ==
    /\ FlowDone
    /\ flow = "medicationInfo"
    /\ ~reply.ok
    /\ reply.err = "quota exceeded"
    /\ calls = 1
    /\ outcome.err # <<>>

\* C8: in every flow, when the generate call succeeds the flow returns a
\* response and no error, whatever the text.
C8_SuccessGivesResponse ==
    (FlowDone /\ reply.ok) =>
        /\ ~outcome.panicked
        /\ outcome.resp # <<>>
        /\ outcome.err = <<>>

\* C9: extractSection never fails and never returns the empty string; it
\* returns the sentinel when the text is empty or the label does not occur in it.
C9_NeverFailsNeverEmpty ==
    Extracted =>
        /\ ~ret.out.panic
        /\ ret.out.val # <<>>
        /\ (call.text = <<>> \/ ~OccursIgnoringCase(call.text, call.keyword))
              => ret.out.val = Sentinel

MealParsed == call.fn = "parseMealSections" /\ ret.done

\* What C10 expects for the k-th header of a plan.
ExpectedSection(plan, k) ==
    IF plan[k] = <<>> THEN Sentinel ELSE TrimSpace(plan[k][1])

\* C10: for a text with the labels present in the order BREAKFAST, LUNCH,
\* DINNER, SNACKS, each followed by a colon and a body without label words,
\* each present label yields its own body trimmed and each absent label the
\* sentinel.
C10_OrderedSectionsExtracted ==
    MealParsed =>
        /\ ~ret.out.panic
        /\ ret.out.val.breakfast = ExpectedSection(call.plan, 1)
        /\ ret.out.val.lunch     = ExpectedSection(call.plan, 2)
        /\ ret.out.val.dinner    = ExpectedSection(call.plan, 3)
        /\ ret.out.val.snacks    = ExpectedSection(call.plan, 4)

\* C11: when the credential read at start-up is empty, the process ends (the
\* exit of log.Fatal, after which nothing runs) before any generate call,
\* any flow run and the start of the server; no request is handled.
C11_MissingKeyIsFatal ==
    main.apiKey = "" =>
        /\ main.stage \in {"start", "fatal"}
        /\ main.stage = "fatal" => ~ENABLED MainNext
        /\ pc = "idle"
        /\ flow = "none"
        /\ calls = 0

\* C11's case: main has read an empty credential and has exited.
C11_Witness ==
    /\ main.apiKey = ""
    /\ main.stage = "fatal"
    /\ calls = 0

\* C12: with the credential present, start-up goes on to the start of the
\* server whatever the backend does for the welcome message and the three
\* flow runs: no failure and no text it returns aborts the process.
C12_StartupNeverAborts ==
    main.apiKey # "" => main.stage # "crashed"

====
